---- MODULE Spec2Model ----
(***************************************************************************)
(* NephoScale compute driver (libcloud/compute/drivers/nephoscale.py):     *)
(* the response class, the node mapper _to_node and the create_node        *)
(* request-then-poll workflow, against a provider whose provisioning is    *)
(* asynchronous.                                                           *)
(***************************************************************************)
EXTENDS Integers, Sequences, FiniteSets, TLC

VARIABLES
    pc,         \* per caller: position inside create_node
    kwargs,     \* per caller: the keyword arguments of the call
    attempts,   \* per caller: the local LOGIN_ATTEMPTS of create_node
    result,     \* per caller: the Node create_node returned (NoResult before)
    error,      \* per caller: the exception create_node raised (NoError before)
    createCalls,\* per caller: POST /server/cloud/ requests sent
    listCalls,  \* per caller: GET /server/cloud/ requests sent
    sleeps,     \* per caller: time.sleep(10) calls made
    pollLog,    \* per caller: outcome of each listing call, in order
    lastNodes,  \* per caller: the node list in which the name was found
    servers,    \* provider: the records GET /server/cloud/ returns, in order
    pending,    \* provider: accepted create requests not yet listed
    owner,      \* provider: server id -> the caller whose request made it
    createResp, \* per caller: what the create request came back as
    raw,        \* mapper run: the raw record handed to _to_node
    mapped,     \* mapper run: the Node _to_node returned (NoResult before)
    resp,       \* response run: the transport result (status, body)
    outcome     \* response run: what the response class made of it

vars == <<pc, kwargs, attempts, result, error, createCalls, listCalls, sleeps,
          pollLog, lastNodes, servers, pending, owner, createResp,
          raw, mapped, resp, outcome>>

workflowVars == <<pc, kwargs, attempts, result, error, createCalls, listCalls,
                  sleeps, pollLog, lastNodes, servers, pending, owner,
                  createResp>>

(***************************************************************************)
(* Python values.  A value is a tagged tuple, so that '4' and 4, or '' and  *)
(* [] stay different values.  Texts that the code takes apart character by  *)
(* character (the address string) are sequences of one-character strings.   *)
(***************************************************************************)
PyNone == <<"none">>
PyStr(s) == <<"str", s>>
PyText(cs) == <<"text", cs>>
PyInt(n) == <<"int", n>>
PyList(xs) == <<"list", xs>>
PyObj(id) == <<"obj", id>>

\* Python truth value of a value (`if x:` / `not x`).
Truthy(v) ==
    CASE v[1] = "none" -> FALSE
      [] v[1] = "str"  -> v[2] # ""
      [] v[1] = "text" -> Len(v[2]) > 0
      [] v[1] = "list" -> Len(v[2]) > 0
      [] v[1] = "int"  -> v[2] # 0
      [] OTHER         -> TRUE

\* dict.get(key, default) on a dict modelled as a function on its keys.
Get(d, key, default) == IF key \in DOMAIN d THEN d[key] ELSE default

(***************************************************************************)
(* Text helpers: str.split(','), str.replace(' ', ''), str.startswith.     *)
(***************************************************************************)
SP == " "
TAB == "\t"
COMMA == ","

HasChar(cs, c) == \E i \in 1..Len(cs) : cs[i] = c

FirstIndex(cs, c) == CHOOSE i \in 1..Len(cs) : cs[i] = c /\ \A j \in 1..(i-1) : cs[j] # c

RECURSIVE Split(_, _)
Split(cs, sep) ==
    IF ~HasChar(cs, sep) THEN <<cs>>
    ELSE LET i == FirstIndex(cs, sep)
         IN  <<SubSeq(cs, 1, i - 1)>> \o Split(SubSeq(cs, i + 1, Len(cs)), sep)

IsNotSpace(c) == c # SP

ReplaceSpaces(cs) == SelectSeq(cs, IsNotSpace)

StartsWith(cs, prefix) ==
    Len(cs) >= Len(prefix) /\ SubSeq(cs, 1, Len(prefix)) = prefix

Prefix10 == <<"1", "0", ".">>
Prefix192 == <<"1", "9", "2", ".", "1", "6", "8">>

(***************************************************************************)
(* NodeState values of libcloud.compute.types and NODE_STATE_MAP.          *)
(***************************************************************************)
NodeState_RUNNING == PyInt(0)
NodeState_UNKNOWN == PyInt(4)

NODE_STATE_MAP ==
    [k \in {"on", "off", "unknown"} |->
        IF k = "on" THEN NodeState_RUNNING ELSE NodeState_UNKNOWN]

\* The default of NODE_STATE_MAP.get(..., '4'): the string '4'.
StateDefault == PyStr("4")

StateOf(power) ==
    IF power[1] = "str" /\ power[2] \in DOMAIN NODE_STATE_MAP
    THEN NODE_STATE_MAP[power[2]]
    ELSE StateDefault

(***************************************************************************)
(* _to_node: raw record -> Node.                                           *)
(***************************************************************************)
IsPrivateOnly10(ip) == StartsWith(ip, Prefix10)

IsPrivate(ip) == StartsWith(ip, Prefix10) \/ StartsWith(ip, Prefix192)

IsPublic(ip) == ~IsPrivate(ip)

CleanToken(tok) == ReplaceSpaces(tok)

\* The loop body's `ip`, for each element of ip_addresses.split(',').
CleanedTokens(ip_addresses) ==
    IF Truthy(ip_addresses)
    THEN LET toks == Split(ip_addresses[2], COMMA)
         IN  [i \in 1..Len(toks) |-> CleanToken(toks[i])]
    ELSE <<>>

to_node(data) ==
    LET ips == CleanedTokens(Get(data, "ipaddresses", PyText(<<>>)))
    IN  [id          |-> Get(data, "id", PyNone),
         name        |-> Get(data, "name", PyNone),
         state       |-> StateOf(Get(data, "power_status", PyNone)),
         public_ips  |-> PyList(SelectSeq(ips, IsPublic)),
         private_ips |-> PyList(SelectSeq(ips, IsPrivate))]

NoResult == [id |-> PyNone, name |-> PyNone, state |-> PyNone,
             public_ips |-> PyNone, private_ips |-> PyNone]

(***************************************************************************)
(* Inputs of a mapper run: raw records whose address string is built from  *)
(* at most MaxChunks pieces, and records with every listed, two unlisted,   *)
(* a null and a missing power_status.                                      *)
(***************************************************************************)
MaxChunks == 4

Chunks == { Prefix10, Prefix192, <<"1">>, <<"0", ".">>, <<"8">>,
            <<SP>>, <<TAB>>, <<COMMA>> }

RECURSIVE Texts(_)
Texts(n) ==
    IF n = 0 THEN {<<>>}
    ELSE LET shorter == Texts(n - 1)
         IN  shorter \cup {t \o c : t \in shorter, c \in Chunks}

\* "8.8, 10.5"
ExampleIps == <<"8", ".", "8", COMMA, SP, "1", "0", ".", "5">>

\* Marks a key the record does not have (a missing field).
Absent == <<"absent">>

PowerValues == {PyStr("on"), PyStr("off"), PyStr("unknown"), PyStr("paused"),
                PyStr("ON"), PyNone, Absent}

RawRecord(power, text) ==
    LET all == [k \in {"id", "name", "power_status", "ipaddresses"} |->
                   CASE k = "id" -> PyInt(999)
                     [] k = "name" -> PyStr("staging-1")
                     [] k = "power_status" -> power
                     [] OTHER -> text]
    IN  [k \in {x \in DOMAIN all : all[x] # Absent} |-> all[k]]

RawRecords ==
    {RawRecord(p, PyText(t)) : p \in {PyStr("on"), PyStr("paused")},
                               t \in Texts(MaxChunks)}
    \cup {RawRecord(p, t) : p \in PowerValues,
                            t \in {Absent, PyNone, PyText(ExampleIps)}}

NoRaw == <<>>

(***************************************************************************)
(* NephoscaleResponse.  success and parse_error are the driver's; the      *)
(* constructor of the base Response class (raise Exception(parse_error())  *)
(* unless success(), else object = parse_body()) and JsonResponse's        *)
(* parse_body are libcloud.common.base.                                    *)
(***************************************************************************)
\* httplib.OK, httplib.ACCEPTED, httplib.CREATED, httplib.NO_CONTENT
VALID_RESPONSE_CODES_No204 == {200, 202, 201}

VALID_RESPONSE_CODES == {200, 202, 201, 204}

Ok(obj) == [kind |-> "ok", cls |-> "", val |-> obj]
Raised(cls, msg) == [kind |-> "raise", cls |-> cls, val |-> msg]
NoOutcome == [kind |-> "none", cls |-> "", val |-> PyNone]

AuthMsg == PyStr("Authorization Failed")
NotFoundMsg == PyStr("The resource you are looking for is not found.")

success(status) == status \in VALID_RESPONSE_CODES

\* parse_error either raises or returns self.body.
parse_error(status, body) ==
    IF status = 401 THEN Raised("InvalidCredsError", AuthMsg)
    ELSE IF status = 404 THEN Raised("Exception", NotFoundMsg)
    ELSE Ok(body)

\* A JSON text is PyJson(x), the serialisation of x; json.loads gives x back.
PyJson(x) == <<"json", x>>

parse_body(body) == IF body[1] = "json" THEN body[2] ELSE body

\* connection.request(...): the response object, or the exception raised.
Respond(status, body) ==
    IF success(status) THEN Ok(parse_body(body))
    ELSE LET e == parse_error(status, body)
         IN  IF e.kind = "raise" THEN e ELSE Raised("Exception", e.val)

(***************************************************************************)
(* The provider.  Server ids are assigned by the provider, in order of     *)
(* provisioning; a create request it accepted is listed some time later,   *)
(* or never.                                                               *)
(***************************************************************************)
Callers == {"w1", "w2"}
NoCaller == "none"

\* Servers that no caller of the model asked for: those of other clients.

MaxOthers == 2
MaxRaceOthers == 1

ServerRecord(id, name, power) ==
    [k \in {"id", "name", "power_status", "ipaddresses"} |->
        CASE k = "id" -> PyInt(id)
          [] k = "name" -> PyStr(name)
          [] k = "power_status" -> PyStr(power)
          [] OTHER -> PyText(ExampleIps)]

ServerNames == {"web", "Web"}

RECURSIVE ServerLists(_)
ServerLists(n) ==
    IF n = 0 THEN {<<>>}
    ELSE LET shorter == ServerLists(n - 1)
         IN  shorter \cup
             {Append(l, ServerRecord(Len(l) + 1, nm, "off")) :
                 l \in {x \in shorter : Len(x) = n - 1}, nm \in ServerNames}

(***************************************************************************)
(* create_node.  pc: idle -> request -> polling -> returned, or raised.    *)
(***************************************************************************)
LOGIN_ATTEMPTS_OffByOne == 20 + 1

LOGIN_ATTEMPTS == 20

NameArgs == {PyStr("web"), PyStr("Web"), PyStr(""), PyNone}
SizeArgs == {PyObj([id |-> PyInt(27)]), PyNone}
ImageArgs == {PyObj([id |-> PyInt(49)]), PyNone}

\* The keyword arguments of a call: a key whose value is PyNone here is absent.
Kwargs(name, size, image) ==
    LET present == {k \in {"name", "size", "image"} :
                       CASE k = "name" -> name # PyNone
                         [] k = "size" -> size # PyNone
                         [] OTHER -> image # PyNone}
    IN  [k \in present |->
            CASE k = "name" -> name [] k = "size" -> size [] OTHER -> image]

\* Lines 317-334: the message of the exception raised in the try block, or
\* PyNone when the arguments pass.
ValidationMessageNoImage(kw) ==
    IF ~Truthy(Get(kw, "name", PyNone)) THEN PyStr("Name cannot be blank")
    ELSE IF ~Truthy(Get(kw, "size", PyNone)) THEN PyStr("Service type cannot be blank")
    ELSE PyNone

ValidationMessage(kw) ==
    IF ~Truthy(Get(kw, "name", PyNone)) THEN PyStr("Name cannot be blank")
    ELSE IF ~Truthy(Get(kw, "size", PyNone)) THEN PyStr("Service type cannot be blank")
    ELSE IF ~Truthy(Get(kw, "image", PyNone)) THEN PyStr("Image cannot be blank")
    ELSE PyNone

\* size.id / image.id
IdOf(v) == IF v[1] = "obj" THEN v[2].id ELSE PyNone

\* Lines 336-342: the form sent with the create request.
RequestData(kw) ==
    [name |-> kw["name"],
     hostname |-> Get(kw, "hostname", kw["name"]),
     service_type |-> IdOf(Get(kw, "size", PyNone)),
     image |-> IdOf(Get(kw, "image", PyNone)),
     server_key |-> Get(kw, "server_key", PyStr("")),
     console_key |-> Get(kw, "console_key", PyStr(""))]

\* Line 350: Node(id='', name=name, state='', public_ips='', private_ips='').
PlaceholderNamedId(name) ==
    [id |-> name, name |-> name, state |-> PyStr(""),
     public_ips |-> PyStr(""), private_ips |-> PyStr("")]

Placeholder(name) ==
    [id |-> PyStr(""), name |-> name, state |-> PyStr(""),
     public_ips |-> PyStr(""), private_ips |-> PyStr("")]

Lower(v) == IF v = PyStr("Web") THEN PyStr("web") ELSE v

NameEqNoCase(a, b) == Lower(a) = Lower(b)

\* c_node.name == name
NameEq(a, b) == a = b

\* Line 357: [c_node for c_node in nodes if c_node.name == name]
Matching(nodes, name) ==
    LET Test(n) == NameEq(n.name, name) IN SelectSeq(nodes, Test)

ChosenLast(created_node) == created_node[Len(created_node)]

\* Line 359: created_node[0]
Chosen(created_node) == created_node[1]

CreateFailedIgnored(r) == FALSE

\* Lines 345-349: the create request raised.
CreateFailed(r) == r.kind = "raise"

\* list_nodes on a parsed response object; result.get('data', []).
list_nodes(object) ==
    LET data == Get(object, "data", <<>>)
    IN  [i \in 1..Len(data) |-> to_node(data[i])]

NoError == NoOutcome

IdleWorkflow ==
    /\ pc = [w \in Callers |-> "idle"]
    /\ kwargs = [w \in Callers |-> <<>>]
    /\ attempts = [w \in Callers |-> 0]
    /\ result = [w \in Callers |-> NoResult]
    /\ error = [w \in Callers |-> NoError]
    /\ createCalls = [w \in Callers |-> 0]
    /\ listCalls = [w \in Callers |-> 0]
    /\ sleeps = [w \in Callers |-> 0]
    /\ pollLog = [w \in Callers |-> <<>>]
    /\ lastNodes = [w \in Callers |-> <<>>]
    /\ createResp = [w \in Callers |-> NoOutcome]
    /\ pending = {}

IdleMapper == raw = NoRaw /\ mapped = NoResult

IdleResponse == resp = [status |-> 0, body |-> PyNone] /\ outcome = NoOutcome

Init ==
    /\ IdleWorkflow
    /\ servers \in ServerLists(MaxOthers)
    /\ owner = [i \in 1..Len(servers) |-> NoCaller]
    /\ IdleMapper
    /\ IdleResponse

\* A response body whose envelope carries no data.
EmptyEnvelope == PyJson([response |-> PyStr("acknowledged")])

\* create_node(**kw), lines 317-334: the argument checks, before any request.
Call(w, kw) ==
    /\ pc[w] = "idle"
    /\ kwargs' = [kwargs EXCEPT ![w] = kw]
    /\ LET msg == ValidationMessage(kw)
       IN  IF msg # PyNone
           THEN /\ pc' = [pc EXCEPT ![w] = "raised"]
                /\ error' = [error EXCEPT ![w] =
                      Raised("Exception", <<"Error on create node: %s", msg>>)]
           ELSE /\ pc' = [pc EXCEPT ![w] = "request"]
                /\ error' = error
    /\ UNCHANGED <<attempts, result, createCalls, listCalls, sleeps, pollLog,
                   lastNodes, createResp, servers, pending, owner>>
    /\ UNCHANGED <<raw, mapped, resp, outcome>>

\* Lines 344-354: the create request, answered with `status`.
Request(w, status) ==
    /\ pc[w] = "request"
    /\ createCalls' = [createCalls EXCEPT ![w] = @ + 1]
    /\ LET r == Respond(status, EmptyEnvelope)
       IN  /\ createResp' = [createResp EXCEPT ![w] = r]
           /\ IF CreateFailed(r)
              THEN /\ pc' = [pc EXCEPT ![w] = "raised"]
                   /\ error' = [error EXCEPT ![w] =
                         Raised("Exception", <<"Failed to create node %s", r>>)]
                   /\ UNCHANGED <<attempts, pending>>
              ELSE /\ pc' = [pc EXCEPT ![w] = "polling"]
                   /\ attempts' = [attempts EXCEPT ![w] = LOGIN_ATTEMPTS]
                   /\ pending' = pending \cup
                         {[by |-> w, data |-> RequestData(kwargs[w])]}
                   /\ error' = error
    /\ UNCHANGED <<kwargs, result, listCalls, sleeps, pollLog, lastNodes,
                   servers, owner>>
    /\ UNCHANGED <<raw, mapped, resp, outcome>>

\* Lines 355-363: one turn of the polling loop, its listing answered with
\* `status` and, on success, an envelope that has a data list or has none.
Poll(w, status, hasData) ==
    /\ pc[w] = "polling"
    /\ attempts[w] > 0
    /\ listCalls' = [listCalls EXCEPT ![w] = @ + 1]
    /\ LET body == IF hasData THEN PyJson([data |-> servers])
                   ELSE EmptyEnvelope
           r == Respond(status, body)
           name == kwargs[w]["name"]
       IN  IF r.kind = "raise"
           THEN /\ pc' = [pc EXCEPT ![w] = "raised"]
                /\ error' = [error EXCEPT ![w] = r]
                /\ pollLog' = [pollLog EXCEPT ![w] = Append(@, "error")]
                /\ UNCHANGED <<attempts, result, sleeps, lastNodes>>
           ELSE LET nodes == list_nodes(r.val)
                    created_node == Matching(nodes, name)
                IN  /\ error' = error
                    /\ IF Len(created_node) > 0
                       THEN /\ result' = [result EXCEPT ![w] = Chosen(created_node)]
                            /\ lastNodes' = [lastNodes EXCEPT ![w] = nodes]
                            /\ pc' = [pc EXCEPT ![w] = "returned"]
                            /\ pollLog' = [pollLog EXCEPT ![w] = Append(@, "match")]
                            /\ UNCHANGED <<attempts, sleeps>>
                       ELSE /\ lastNodes' = lastNodes
                            /\ sleeps' = [sleeps EXCEPT ![w] = @ + 1]
                            /\ attempts' = [attempts EXCEPT ![w] = @ - 1]
                            /\ pollLog' = [pollLog EXCEPT ![w] = Append(@, "miss")]
                            /\ IF attempts[w] - 1 > 0
                               THEN UNCHANGED <<pc, result>>
                               ELSE /\ pc' = [pc EXCEPT ![w] = "returned"]
                                    /\ result' = [result EXCEPT ![w] = Placeholder(name)]
    /\ UNCHANGED <<kwargs, createCalls, createResp, servers, pending, owner>>
    /\ UNCHANGED <<raw, mapped, resp, outcome>>

\* The provider lists an accepted request as a new server, first or last.
Provision(p, first) ==
    /\ p \in pending
    /\ pending' = pending \ {p}
    /\ LET id == Len(servers) + 1
           rec == ServerRecord(id, p.data.name[2], "on")
       IN  /\ servers' = IF first THEN <<rec>> \o servers ELSE Append(servers, rec)
           /\ owner' = Append(owner, p.by)
    /\ UNCHANGED <<pc, kwargs, attempts, result, error, createCalls, listCalls,
                   sleeps, pollLog, lastNodes, createResp>>
    /\ UNCHANGED <<raw, mapped, resp, outcome>>

\* Another client's server appears in the listing, first or last.
OtherServer(name, first) ==
    /\ Cardinality({i \in 1..Len(owner) : owner[i] = NoCaller}) < MaxOthers
    /\ LET rec == ServerRecord(Len(servers) + 1, name, "off")
       IN  /\ servers' = IF first THEN <<rec>> \o servers ELSE Append(servers, rec)
           /\ owner' = Append(owner, NoCaller)
    /\ UNCHANGED <<pc, kwargs, attempts, result, error, createCalls, listCalls,
                   sleeps, pollLog, lastNodes, createResp, pending>>
    /\ UNCHANGED <<raw, mapped, resp, outcome>>

CreateStatuses == {200, 202, 401, 500}
ListStatuses == {200, 401, 404, 503}

(***************************************************************************)
(* Spec: one create_node call, with every argument and every answer, on a  *)
(* provider that other clients use too.                                    *)
(***************************************************************************)
Next ==
    \/ \E n \in NameArgs, s \in SizeArgs, i \in ImageArgs :
          Call("w1", Kwargs(n, s, i))
    \/ \E status \in CreateStatuses : Request("w1", status)
    \/ \E status \in ListStatuses, hasData \in BOOLEAN :
          Poll("w1", status, hasData)
    \/ \E p \in pending, first \in BOOLEAN : Provision(p, first)
    \/ \E nm \in ServerNames, first \in BOOLEAN : OtherServer(nm, first)

Spec == Init /\ [][Next]_vars

(***************************************************************************)
(* SpecRace: two concurrent create_node calls with accepted arguments and  *)
(* successful answers, on a provider nobody else changes meanwhile.        *)
(***************************************************************************)
GoodSize == PyObj([id |-> PyInt(27)])
GoodImage == PyObj([id |-> PyInt(49)])

NextRace ==
    \/ \E w \in Callers, n \in {PyStr("web"), PyStr("Web")} :
          Call(w, Kwargs(n, GoodSize, GoodImage))
    \/ \E w \in Callers : Request(w, 200)
    \/ \E w \in Callers : Poll(w, 200, TRUE)
    \/ \E p \in pending, first \in BOOLEAN : Provision(p, first)

InitRace ==
    /\ IdleWorkflow
    /\ servers \in ServerLists(MaxRaceOthers)
    /\ owner = [i \in 1..Len(servers) |-> NoCaller]
    /\ IdleMapper
    /\ IdleResponse

SpecRace == InitRace /\ [][NextRace]_vars

(***************************************************************************)
(* SpecMapper: _to_node applied to one raw record.                         *)
(***************************************************************************)
InitMapper ==
    /\ IdleWorkflow
    /\ servers = <<>>
    /\ owner = <<>>
    /\ raw \in RawRecords
    /\ mapped = NoResult
    /\ IdleResponse

ToNode ==
    /\ mapped = NoResult
    /\ mapped' = to_node(raw)
    /\ UNCHANGED <<raw, resp, outcome>>
    /\ UNCHANGED workflowVars

NextMapper == ToNode

SpecMapper == InitMapper /\ [][NextMapper]_vars

(***************************************************************************)
(* SpecResponse: one transport result through the response class.          *)
(***************************************************************************)
MaxStatus == 599

StatusCodes == 100..MaxStatus

Bodies == {PyJson([data |-> <<>>]),
           PyJson([data |-> <<ServerRecord(1, "web", "on")>>]),
           PyStr("Internal Server Error")}

InitResponse ==
    /\ IdleWorkflow
    /\ servers = <<>>
    /\ owner = <<>>
    /\ IdleMapper
    /\ resp \in [status : StatusCodes, body : Bodies]
    /\ outcome = NoOutcome

Normalize ==
    /\ outcome = NoOutcome
    /\ outcome' = Respond(resp.status, resp.body)
    /\ UNCHANGED <<raw, mapped, resp>>
    /\ UNCHANGED workflowVars

NextResponse == Normalize

SpecResponse == InitResponse /\ [][NextResponse]_vars

(***************************************************************************)
(* What the claims speak of.                                               *)
(***************************************************************************)
NameOf(w) == kwargs[w]["name"]

Last(log) == log[Len(log)]

AllMiss(w) == \A i \in 1..Len(pollLog[w]) : pollLog[w][i] = "miss"

\* create_node got past its create request and began to poll.
BeganPolling(w) == createResp[w].kind = "ok"

Resolved(w) ==
    pc[w] = "returned" /\ Len(pollLog[w]) > 0 /\ Last(pollLog[w]) = "match"

Exhausted(w) ==
    pc[w] = "returned" /\ Len(pollLog[w]) > 0 /\ Last(pollLog[w]) = "miss"

IsEmptyValue(v) == v = PyNone \/ v = PyStr("") \/ v = PyList(<<>>)

\* Absent or empty argument.
Missing(kw, k) == k \notin DOMAIN kw \/ kw[k] = PyNone \/ kw[k] = PyStr("")

\* C1: a create_node whose listing calls all came back without the requested
\* name does not raise, makes no more than 20 listing calls, has returned
\* exactly when it has made 20, and then returns the placeholder: the
\* caller's name, empty id, empty state, empty address collections.
C1_ExhaustsAfterTwentyListings ==
    \A w \in Callers :
        (BeganPolling(w) /\ AllMiss(w)) =>
            /\ pc[w] \in {"polling", "returned"}
            /\ error[w] = NoError
            /\ listCalls[w] = Len(pollLog[w])
            /\ listCalls[w] <= 20
            /\ (pc[w] = "returned") <=> (listCalls[w] = 20)
            /\ pc[w] = "returned" =>
                  /\ result[w].name = NameOf(w)
                  /\ result[w].id = PyStr("")
                  /\ result[w].state = PyStr("")
                  /\ IsEmptyValue(result[w].public_ips)
                  /\ IsEmptyValue(result[w].private_ips)

C1_Witness ==
    \E w \in Callers :
        /\ Exhausted(w) /\ AllMiss(w) /\ listCalls[w] = 20
        /\ Len(servers) > 0

\* Positions of the nodes of a listing whose name is exactly `name`.
MatchPositions(nodes, name) == {j \in 1..Len(nodes) : nodes[j].name = name}

FirstOf(S) == CHOOSE j \in S : \A k \in S : j <= k

\* C2: a listing call that contains the requested name is the last call of
\* the workflow: it is the k-th entry of the log and the k-th listing call,
\* k <= 20, k - 1 delays were made, all before it, the workflow has returned,
\* and what it returned is the first node of that listing, in listing
\* order, whose name equals the requested name exactly.
C2_FirstMatchEndsPolling ==
    \A w \in Callers :
        \A k \in 1..Len(pollLog[w]) :
            pollLog[w][k] = "match" =>
                /\ k = Len(pollLog[w])
                /\ \A i \in 1..(k - 1) : pollLog[w][i] = "miss"
                /\ listCalls[w] = k /\ k <= 20
                /\ sleeps[w] = k - 1
                /\ pc[w] = "returned" /\ error[w] = NoError
                /\ MatchPositions(lastNodes[w], NameOf(w)) # {}
                /\ result[w] =
                      lastNodes[w][FirstOf(MatchPositions(lastNodes[w], NameOf(w)))]

C2_Witness ==
    \E w \in Callers :
        /\ Resolved(w) /\ listCalls[w] >= 2
        /\ Cardinality(MatchPositions(lastNodes[w], NameOf(w))) >= 2
        /\ \E j \in 1..Len(lastNodes[w]) : lastNodes[w][j].name # NameOf(w)

\* C3: a create_node called with name, size or image absent or empty has
\* raised the argument error, and has sent neither a create request nor a
\* listing request.
C3_MissingArgumentNoRemoteCall ==
    \A w \in Callers :
        (pc[w] # "idle" /\ \E k \in {"name", "size", "image"} : Missing(kwargs[w], k)) =>
            /\ pc[w] = "raised"
            /\ error[w].kind = "raise"
            /\ error[w].val[1] = "Error on create node: %s"
            /\ createCalls[w] = 0 /\ listCalls[w] = 0
            /\ createResp[w] = NoOutcome
            /\ \A p \in pending : p.by # w
            /\ result[w] = NoResult

C3_Witness ==
    \E w \in Callers :
        /\ pc[w] = "raised"
        /\ ~Missing(kwargs[w], "name") /\ ~Missing(kwargs[w], "size")
        /\ Missing(kwargs[w], "image")

\* C4: the create request is sent at most once; when it failed, create_node
\* has raised the creation failure that wraps it, has made no listing call
\* and no delay, and returns nothing.
C4_CreateSentOnceFailurePropagates ==
    \A w \in Callers :
        /\ createCalls[w] <= 1
        /\ (createCalls[w] = 1 /\ createResp[w].kind = "raise") =>
              /\ pc[w] = "raised"
              /\ error[w] = Raised("Exception",
                                   <<"Failed to create node %s", createResp[w]>>)
              /\ listCalls[w] = 0 /\ sleeps[w] = 0 /\ pollLog[w] = <<>>
              /\ result[w] = NoResult
              /\ \A p \in pending : p.by # w

C4_Witness ==
    \E w \in Callers :
        createCalls[w] = 1 /\ createResp[w].kind = "raise" /\ pc[w] = "raised"

C6_StatusClassification ==
    outcome # NoOutcome =>
        LET st == resp.status
            b == resp.body
        IN  /\ st \in {200, 201, 202, 204} =>
                  /\ outcome.kind = "ok"
                  /\ b[1] = "json" => outcome.val = b[2]
                  /\ b[1] # "json" => outcome.val = b
            /\ st = 401 =>
                  outcome = [kind |-> "raise", cls |-> "InvalidCredsError",
                             val |-> PyStr("Authorization Failed")]
            /\ st = 404 =>
                  outcome = [kind |-> "raise", cls |-> "Exception",
                             val |-> PyStr("The resource you are looking for is not found.")]
            /\ st \notin {200, 201, 202, 204, 401, 404} =>
                  outcome = [kind |-> "raise", cls |-> "Exception", val |-> b]

C6_Witness ==
    /\ outcome.kind = "ok" /\ resp.status = 204
    /\ resp.body[1] = "json" /\ Len(resp.body[2].data) > 0

\* C7: _to_node gives RUNNING for power_status 'on' and, for every other or
\* missing power_status, the UNKNOWN value that 'off' and 'unknown' give.
C7_OtherStatesAreUnknown ==
    mapped # NoResult =>
        LET power == Get(raw, "power_status", PyNone)
        IN  /\ power = PyStr("on") => mapped.state = NodeState_RUNNING
            /\ power # PyStr("on") =>
                  /\ mapped.state = NodeState_UNKNOWN
                  /\ mapped.state = to_node(RawRecord(PyStr("off"), Absent)).state
                  /\ mapped.state # NodeState_RUNNING

(***************************************************************************)
(* C8.  The tokens of an address string, by position of its commas.        *)
(***************************************************************************)
IsWhite(c) == c = SP \/ c = TAB

\* str.strip(): without leading and trailing whitespace.
Strip(cs) ==
    LET keep == {i \in 1..Len(cs) : ~IsWhite(cs[i])}
    IN  IF keep = {} THEN <<>>
        ELSE SubSeq(cs, CHOOSE i \in keep : \A j \in keep : i <= j,
                        CHOOSE i \in keep : \A j \in keep : j <= i)

\* The characters of the record's address string; none when it has no string.
TextOf(record) ==
    LET v == Get(record, "ipaddresses", PyNone)
    IN  IF v[1] = "text" THEN v[2] ELSE <<>>

CommaPositions(cs) == {i \in 1..Len(cs) : cs[i] = COMMA}

\* The n-th comma-separated token of cs, n in 1..(number of commas + 1).
TokenAt(cs, n) ==
    LET cut == CommaPositions(cs) \cup {0, Len(cs) + 1}
        from == CHOOSE i \in cut : Cardinality({j \in cut : j < i}) = n - 1
        to == CHOOSE i \in cut : Cardinality({j \in cut : j < i}) = n
    IN  SubSeq(cs, from + 1, to - 1)

TokenCount(cs) == IF Len(cs) = 0 THEN 0 ELSE Cardinality(CommaPositions(cs)) + 1

BeginsPrivate(tok) ==
    \/ Len(tok) >= 3 /\ SubSeq(tok, 1, 3) = <<"1", "0", ".">>
    \/ Len(tok) >= 7 /\ SubSeq(tok, 1, 7) = <<"1", "9", "2", ".", "1", "6", "8">>

\* The two lists hold the tokens `toks`, split by BeginsPrivate, in order.
SplitsInOrder(toks, public, private) ==
    /\ Len(public) + Len(private) = Len(toks)
    /\ \A i \in 1..Len(toks) :
          LET before == {j \in 1..i : BeginsPrivate(toks[j]) = BeginsPrivate(toks[i])}
          IN  IF BeginsPrivate(toks[i])
              THEN Cardinality(before) <= Len(private)
                   /\ private[Cardinality(before)] = toks[i]
              ELSE Cardinality(before) <= Len(public)
                   /\ public[Cardinality(before)] = toks[i]
    /\ \A i \in 1..Len(public), j \in 1..Len(private) : public[i] # private[j]

\* C8 as stated: each token, stripped of leading and trailing whitespace,
\* is in the private list when it begins with 10. or 192.168 and in the
\* public list otherwise, in input order, every token once, no token in
\* both; no or empty address string gives two empty lists.
C8_StrippedTokensClassified ==
    mapped # NoResult =>
        LET cs == TextOf(raw)
            toks == [n \in 1..TokenCount(cs) |-> Strip(TokenAt(cs, n))]
        IN  /\ mapped.public_ips[1] = "list" /\ mapped.private_ips[1] = "list"
            /\ SplitsInOrder(toks, mapped.public_ips[2], mapped.private_ips[2])

\* C8 as amended: the same, for each token with every space character
\* removed, wherever it stands, and nothing else removed.
C8_SpaceFreeTokensClassified ==
    mapped # NoResult =>
        LET cs == TextOf(raw)
            NoSpace(tok) ==
                LET keep == {i \in 1..Len(tok) : tok[i] # " "}
                IN  [n \in 1..Cardinality(keep) |->
                        tok[CHOOSE i \in keep : Cardinality({j \in keep : j <= i}) = n]]
            toks == [n \in 1..TokenCount(cs) |-> NoSpace(TokenAt(cs, n))]
        IN  /\ mapped.public_ips[1] = "list" /\ mapped.private_ips[1] = "list"
            /\ SplitsInOrder(toks, mapped.public_ips[2], mapped.private_ips[2])

C8_Witness ==
    /\ mapped # NoResult
    /\ Len(mapped.public_ips[2]) >= 1 /\ Len(mapped.private_ips[2]) >= 1
    /\ \E i \in 1..Len(TextOf(raw)) : TextOf(raw)[i] = SP
    /\ Len(TextOf(raw)) < Len(ExampleIps)

\* C9: once create_node polls, an error of a listing call does not end it:
\* it never ends in a raised error, only in a returned instance.
C9_ListingErrorsDoNotEndPolling ==
    \A w \in Callers :
        BeganPolling(w) =>
            /\ pc[w] # "raised"
            /\ error[w] = NoError
            /\ (\E i \in 1..Len(pollLog[w]) : pollLog[w][i] = "error") =>
                  pc[w] \in {"polling", "returned"}

(***************************************************************************)
(* C10.                                                                    *)
(***************************************************************************)
\* No server of anybody else and no other call carries w's name.
NameIsOnlyMine(w) ==
    /\ \A i \in 1..Len(servers) :
          servers[i]["name"] = NameOf(w) => owner[servers[i]["id"][2]] = w
    /\ \A v \in Callers \ {w} :
          pc[v] # "idle" => Get(kwargs[v], "name", PyNone) # NameOf(w)

\* The instance w got is the one the provider made for w's create request.
GotOwn(w) ==
    /\ result[w].id[1] = "int"
    /\ result[w].id[2] \in 1..Len(owner)
    /\ owner[result[w].id[2]] = w

\* C10: when no server of anybody else and no other workflow carries the
\* requested name, an instance found by name is the one made for this
\* workflow's own create request.  (That a workflow can get an instance not
\* made for it when the name is shared is the state C10_Witness.)
C10_UniqueNameResolvesToOwn ==
    \A w \in Callers : (Resolved(w) /\ NameIsOnlyMine(w)) => GotOwn(w)

\* Two concurrent calls with one name, on a provider with no server of
\* anybody else, both holding the same instance (reachable under SpecRace).
C10_BothGetSameInstance ==
    \E a \in Callers, b \in Callers :
        /\ a # b /\ Resolved(a) /\ Resolved(b)
        /\ result[a] = result[b]
        /\ \A i \in 1..Len(owner) : owner[i] # NoCaller

C10_Witness ==
    /\ \E w \in Callers : Resolved(w) /\ ~GotOwn(w)
    /\ \E w \in Callers :
          /\ Resolved(w) /\ NameIsOnlyMine(w) /\ GotOwn(w)
          /\ \E i \in 1..Len(servers) : servers[i]["name"] # NameOf(w)
====
